---- MODULE Spec2Model ----
(***************************************************************************)
(* Model of the documentation site's article layout component              *)
(* (src/layouts/articleLayout.tsx) and of the database, view and           *)
(* validation script of the "SQL views" guide (the MDX page).              *)
(***************************************************************************)
EXTENDS Integers, Sequences, FiniteSets

VARIABLES renders, User, Post, userSeq, postSeq, pc, drafts, filteredDrafts

dbVars == <<User, Post, userSeq, postSeq, pc, drafts, filteredDrafts>>
vars == <<renders, User, Post, userSeq, postSeq, pc, drafts, filteredDrafts>>

(***************************************************************************)
(* Bounds.                                                                 *)
(***************************************************************************)
MaxRenders == 2
MaxUsers == 1
MaxPosts == 2

(***************************************************************************)
(* JavaScript values: a tag and a payload.                                 *)
(***************************************************************************)
Undefined == [t |-> "undefined", v |-> ""]
Null == [t |-> "null", v |-> ""]
JSFalse == [t |-> "boolean", v |-> "false"]
JSTrue == [t |-> "boolean", v |-> "true"]
Str(s) == [t |-> "string", v |-> s]
Num(s) == [t |-> "number", v |-> s]
Obj(s) == [t |-> "object", v |-> s]
Arr(s) == [t |-> "array", v |-> s]
EmptyArray == Arr("")
JSBool(b) == IF b THEN JSTrue ELSE JSFalse

\* ECMAScript ToBoolean: undefined, null, false, +0/-0/NaN and "" are falsy;
\* every object (arrays, functions, the query result) is truthy.
ToBoolean(x) ==
    CASE x.t = "undefined" -> FALSE
      [] x.t = "null" -> FALSE
      [] x.t = "boolean" -> x.v = "true"
      [] x.t = "number" -> x.v \notin {"0", "NaN"}
      [] x.t = "string" -> x.v # ""
      [] OTHER -> TRUE

\* a || b yields a when a is truthy and b otherwise (the value, not a boolean).
LogicalOr(a, b) == IF ToBoolean(a) THEN a ELSE b

\* x == null (abstract equality): true for null and undefined only.
LooseEqualsNull(x) == x.t \in {"null", "undefined"}

\* c ? a : b
Conditional(c, a, b) == IF ToBoolean(c) THEN a ELSE b

\* ToString as applied by a template literal's substitutions.
ToString(x) ==
    CASE x.t = "undefined" -> "undefined"
      [] x.t = "null" -> "null"
      [] x.t = "object" -> "[object Object]"
      [] OTHER -> x.v

(***************************************************************************)
(* The query result (ArticleQueryData) and the router props.               *)
(***************************************************************************)
QueryData(slug, modSlug, fm, body, relativePath, tableOfContents, docsLocation) ==
    [t |-> "data",
     mdx |-> [fields |-> [slug |-> slug, modSlug |-> modSlug],
              frontmatter |-> fm,
              body |-> body,
              parent |-> [relativePath |-> relativePath],
              tableOfContents |-> tableOfContents],
     site |-> [siteMetadata |-> [docsLocation |-> docsLocation]]]

Frontmatter(title, metaTitle, metaDescription, langSwitcher, dbSwitcher, toc) ==
    [title |-> title, metaTitle |-> metaTitle, metaDescription |-> metaDescription,
     langSwitcher |-> langSwitcher, dbSwitcher |-> dbSwitcher, toc |-> toc]

\* The front matter of the "SQL views" page.
SqlViewsFrontmatter ==
    Frontmatter(Str("SQL views"),
                Str("Create SQL views with Prisma and PostgreSQL"),
                Str("Learn how to create SQL views with Prisma and PostgreSQL"),
                Null, Arr("postgres"), Null)

Titles == {Null, Str(""), Str("SQL views")}
MetaTitles == {Null, Str(""), Str("Create SQL views with Prisma and PostgreSQL")}
MetaDescriptions == {Null, Str(""), Str("Learn how to create SQL views with Prisma and PostgreSQL")}
TocValues == {Undefined, Null, JSFalse, JSTrue, Num("0"), Str("")}
TablesOfContents == {Obj("items:Overview,Prerequisites"), Obj("empty")}
Switchers == {Null, Arr("postgres")}
DocsLocations == {Str("https://github.com/prisma/docs/tree/master/content"), Str("")}
RelativePaths == {Str("guides/sql-views.mdx"), Str("index.mdx")}
Slugs == {<<Str("/guides/sql-views"), Str("/guides/sql-views-postgres")>>,
          <<Str("/"), Str("/index")>>}
Locations == {Undefined, Obj("/guides/sql-views"), Obj("/")}

PageData(fm, toC, slugs, rel, docs) ==
    QueryData(slugs[1], slugs[2], fm, Str("compiled MDX body"), rel, toC, docs)

BaseSlugs == <<Str("/guides/sql-views"), Str("/guides/sql-views-postgres")>>
BaseData ==
    PageData(SqlViewsFrontmatter, Obj("items:Overview,Prerequisites"), BaseSlugs,
             Str("guides/sql-views.mdx"),
             Str("https://github.com/prisma/docs/tree/master/content"))

\* The query results rendered by the model: the page's own, and variations
\* of its front matter, its table of contents and its paths.
DataSet ==
    {Undefined, Null}
    \cup {PageData(Frontmatter(ti, mt, md, Null, Arr("postgres"), Null),
                   BaseData.mdx.tableOfContents, BaseSlugs,
                   BaseData.mdx.parent.relativePath,
                   BaseData.site.siteMetadata.docsLocation) :
            ti \in Titles, mt \in MetaTitles, md \in MetaDescriptions}
    \cup {PageData(Frontmatter(Str("SQL views"), Null, Null, Null, Arr("postgres"), toc),
                   toC, BaseSlugs,
                   BaseData.mdx.parent.relativePath,
                   BaseData.site.siteMetadata.docsLocation) :
            toc \in TocValues, toC \in TablesOfContents}
    \cup {PageData(Frontmatter(Str("SQL views"), Null, Null, ls, ds, JSTrue),
                   BaseData.mdx.tableOfContents, BaseSlugs,
                   BaseData.mdx.parent.relativePath,
                   BaseData.site.siteMetadata.docsLocation) :
            ls \in Switchers, ds \in Switchers}
    \cup {PageData(SqlViewsFrontmatter, BaseData.mdx.tableOfContents, sl, rel, docs) :
            sl \in Slugs, rel \in RelativePaths, docs \in DocsLocations}

Inputs ==
    {<<d, Obj("/guides/sql-views")>> : d \in DataSet}
    \cup {<<d, l>> : d \in {Undefined, BaseData}, l \in Locations}

(***************************************************************************)
(* ArticleLayout: the elements it renders.                                 *)
(***************************************************************************)
Element(type, props, children) == [type |-> type, props |-> props, children |-> children]

\* useNavigate(): the navigate function of the router's location context.
useNavigate == [t |-> "function", v |-> "navigate"]

\* <SEO title={metaTitle || title} description={metaDescription || title} />
SEONullish(title, metaTitle, metaDescription) ==
    Element("SEO",
            [title |-> IF LooseEqualsNull(metaTitle) THEN title ELSE metaTitle,
             description |-> IF LooseEqualsNull(metaDescription) THEN title
                             ELSE metaDescription],
            <<>>)

SEO(title, metaTitle, metaDescription) ==
    Element("SEO",
            [title |-> LogicalOr(metaTitle, title),
             description |-> LogicalOr(metaDescription, title)],
            <<>>)

\* toc={toc || toc == null ? tableOfContents : []}
\* (== binds tighter than ||, which binds tighter than ?:)
TocPropOptIn(toc, tableOfContents) ==
    Conditional(toc, tableOfContents, EmptyArray)

TocProp(toc, tableOfContents) ==
    Conditional(LogicalOr(toc, JSBool(LooseEqualsNull(toc))), tableOfContents, EmptyArray)

TopSection(location, title, modSlug, langSwitcher, dbSwitcher, navigate, toc) ==
    Element("TopSection",
            [location |-> location, title |-> title, slug |-> modSlug,
             langSwitcher |-> langSwitcher, dbSwitcher |-> dbSwitcher,
             navigate |-> navigate, toc |-> toc],
            <<>>)

\* <PageBottom editDocsPath={`${docsLocation}/${parent.relativePath}`} pageUrl={slug} />
PageBottomSwapped(docsLocation, parent, slug, modSlug) ==
    Element("PageBottom",
            [editDocsPath |-> Str(ToString(docsLocation) \o "/" \o ToString(parent.relativePath)),
             pageUrl |-> modSlug],
            <<>>)

PageBottom(docsLocation, parent, slug, modSlug) ==
    Element("PageBottom",
            [editDocsPath |-> Str(ToString(docsLocation) \o "/" \o ToString(parent.relativePath)),
             pageUrl |-> slug],
            <<>>)

\* <> ... </>: the fragment and its children, in document order.
FragmentNoBody(seo, topSection, body, pageBottom) ==
    Element("Fragment", <<>>,
            <<seo,
              Element("section", [className |-> "top-section"], <<topSection>>),
              pageBottom>>)

Fragment(seo, topSection, body, pageBottom) ==
    Element("Fragment", <<>>,
            <<seo,
              Element("section", [className |-> "top-section"], <<topSection>>),
              Element("MDXRenderer", <<>>, <<body>>),
              pageBottom>>)

\* The fields of data the destructuring pattern and the JSX read.
DestructuredPaths ==
    {"mdx.fields.slug", "mdx.fields.modSlug",
     "mdx.frontmatter.title", "mdx.frontmatter.metaTitle",
     "mdx.frontmatter.metaDescription", "mdx.frontmatter.langSwitcher",
     "mdx.frontmatter.dbSwitcher", "mdx.frontmatter.toc",
     "mdx.body", "mdx.parent", "mdx.tableOfContents",
     "site.siteMetadata.docsLocation", "mdx.parent.relativePath"}

\* The return statement, given the destructured data and the toc prop.
RenderBody(data, props, toc) ==
    LET fm == data.mdx.frontmatter
        navigate == useNavigate
    IN  Fragment(SEO(fm.title, fm.metaTitle, fm.metaDescription),
                 TopSection(props.location, fm.title, data.mdx.fields.modSlug,
                            fm.langSwitcher, fm.dbSwitcher, navigate, toc),
                 data.mdx.body,
                 PageBottom(data.site.siteMetadata.docsLocation, data.mdx.parent,
                            data.mdx.fields.slug, data.mdx.fields.modSlug))

\* A variant without the guard: destructuring undefined or null throws.
ArticleLayoutUnguarded(data, props) ==
    IF data.t \in {"undefined", "null"}
    THEN [returned |-> Element("TypeError", <<>>, <<>>), reads |-> {"mdx"}]
    ELSE [returned |-> RenderBody(data, props,
                                  TocProp(data.mdx.frontmatter.toc, data.mdx.tableOfContents)),
          reads |-> DestructuredPaths]

\* A variant with state kept across renders: the table of contents is left
\* out of the first render and shown from the second one on.
ArticleLayoutLazyToc(data, props) ==
    IF ~ToBoolean(data)
    THEN [returned |-> Null, reads |-> {}]
    ELSE LET toc == IF Len(renders) = 0 THEN EmptyArray
                    ELSE TocProp(data.mdx.frontmatter.toc, data.mdx.tableOfContents)
         IN [returned |-> RenderBody(data, props, toc), reads |-> DestructuredPaths]

\* const ArticleLayout = ({ data, ...props }) => ...
\* returned is the value the component returns: null or the fragment;
\* reads is the set of fields of data it has read.
ArticleLayout(data, props) ==
    IF ~ToBoolean(data)
    THEN [returned |-> Null, reads |-> {}]
    ELSE [returned |-> RenderBody(data, props,
                                  TocProp(data.mdx.frontmatter.toc, data.mdx.tableOfContents)),
          reads |-> DestructuredPaths]

\* One render of the component by the framework, with a query result and a
\* location; renders records each render's inputs and output.
Render(data, location) ==
    /\ Len(renders) < MaxRenders
    /\ renders' = Append(renders, [data |-> data, location |-> location,
                                   output |-> ArticleLayout(data, [location |-> location])])
    /\ UNCHANGED dbVars

(***************************************************************************)
(* The guide's database: SQL values, the two tables and the view.          *)
(***************************************************************************)
SqlNull == [null |-> TRUE]
Val(v) == [null |-> FALSE, v |-> v]

\* a = b in SQL: unknown (NULL) when either side is NULL.
SqlEq(a, b) == IF a.null \/ b.null THEN SqlNull ELSE Val(a.v = b.v)

\* a AND b in SQL's three-valued logic.
SqlAnd(a, b) ==
    IF a = Val(FALSE) \/ b = Val(FALSE) THEN Val(FALSE)
    ELSE IF a.null \/ b.null THEN SqlNull
    ELSE Val(TRUE)

Emails == {SqlNull, Val("sarah@prisma.io"), Val("emily@prisma.io")}
Names == {SqlNull}
PostTitles == {SqlNull, Val("My first post")}
Contents == {SqlNull}
Booleans == {SqlNull, Val(TRUE), Val(FALSE)}

\* INSERT INTO "User" (email, name): id SERIAL PRIMARY KEY, email TEXT UNIQUE.
\* (UNIQUE admits any number of NULLs.)
InsertUser(email, name) ==
    /\ pc = "start"
    /\ Cardinality(User) < MaxUsers
    /\ email.null \/ \A u \in User : u.email # email
    /\ userSeq' = userSeq + 1
    /\ User' = User \cup {[id |-> Val(userSeq + 1), email |-> email, name |-> name]}
    /\ UNCHANGED <<renders, Post, postSeq, pc, drafts, filteredDrafts>>

\* INSERT INTO "Post" (title, content, published, "authorId"):
\* CONSTRAINT author FOREIGN KEY ("authorId") REFERENCES "User" (id).
InsertPost(title, content, published, authorId) ==
    /\ pc = "start"
    /\ Cardinality(Post) < MaxPosts
    /\ authorId.null \/ \E u \in User : u.id = authorId
    /\ postSeq' = postSeq + 1
    /\ Post' = Post \cup {[id |-> Val(postSeq + 1), title |-> title, content |-> content,
                           published |-> published, authorId |-> authorId]}
    /\ UNCHANGED <<renders, User, userSeq, pc, drafts, filteredDrafts>>

\* WHERE "published" = false AND "Post"."authorId" = "User"."id"
WhereNotTrue(p, u) ==
    IF p.published # Val(TRUE) /\ SqlEq(p.authorId, u.id) = Val(TRUE)
    THEN Val(TRUE) ELSE Val(FALSE)

Where(p, u) == SqlAnd(SqlEq(p.published, Val(FALSE)), SqlEq(p.authorId, u.id))

\* SELECT "published", "title", "email", "Post"."id"
Select(p, u) == [published |-> p.published, title |-> p.title, email |-> u.email, id |-> p.id]

\* FROM "Post", "User" WHERE ...: the pairs of the cross join the WHERE keeps.
From == {x \in Post \X User : Where(x[1], x[2]) = Val(TRUE)}

\* The view's rows as a bag: each row with the number of times it occurs.
Draft ==
    LET rows == {Select(x[1], x[2]) : x \in From}
    IN [r \in rows |-> Cardinality({x \in From : Select(x[1], x[2]) = r})]

(***************************************************************************)
(* index.js: the script that validates the view.                           *)
(***************************************************************************)
EmptyBag == [r \in {} |-> 0]

\* The Post records of each nested create.
NestedPosts ==
    <<[title |-> "My first post", published |-> FALSE],
      [title |-> "All about databases", published |-> TRUE],
      [title |-> "Prisma Day 2020", published |-> FALSE]>>

\* prisma.user.create({ data: { name, email, Post: { create: [...] } } }):
\* one transaction inserting the user and its posts; a taken email makes it
\* throw, main() rejects and nothing below runs.
UserCreate(name, email, from, to) ==
    /\ pc = from
    /\ IF \E u \in User : u.email = Val(email)
       THEN /\ pc' = "failed"
            /\ UNCHANGED <<User, Post, userSeq, postSeq>>
       ELSE /\ pc' = to
            /\ userSeq' = userSeq + 1
            /\ User' = User \cup {[id |-> Val(userSeq + 1), email |-> Val(email),
                                   name |-> Val(name)]}
            /\ postSeq' = postSeq + Len(NestedPosts)
            /\ Post' = Post \cup {[id |-> Val(postSeq + i),
                                   title |-> Val(NestedPosts[i].title),
                                   content |-> SqlNull,
                                   published |-> Val(NestedPosts[i].published),
                                   authorId |-> Val(userSeq + 1)] :
                                  i \in 1..Len(NestedPosts)}
    /\ UNCHANGED <<renders, drafts, filteredDrafts>>

\* const sarahPosts = await prisma.user.create(...)
CreateSarah == UserCreate("Sarah", "sarah@prisma.io", "start", "sarahCreated")

\* const emilyPosts = await prisma.user.create(...)
CreateEmily == UserCreate("Emily", "emily@prisma.io", "sarahCreated", "emilyCreated")

\* prisma.draft.findMany({ where }): the view's rows the filter keeps;
\* where is the set of emails asked for, or {} for no filter.
FindMany(where) ==
    LET keep == {r \in DOMAIN Draft :
                   where = {} \/ \E e \in where : SqlEq(r.email, Val(e)) = Val(TRUE)}
    IN [r \in keep |-> Draft[r]]

\* const drafts = await prisma.draft.findMany({})
FindDrafts ==
    /\ pc = "emilyCreated"
    /\ drafts' = FindMany({})
    /\ pc' = "draftsLogged"
    /\ UNCHANGED <<renders, User, Post, userSeq, postSeq, filteredDrafts>>

\* const filteredDrafts = await prisma.draft.findMany({ where: { email: 'sarah@prisma.io' } })
FindFilteredDrafts ==
    /\ pc = "draftsLogged"
    /\ filteredDrafts' = FindMany({"sarah@prisma.io"})
    /\ pc' = "done"
    /\ UNCHANGED <<renders, User, Post, userSeq, postSeq, drafts>>

(***************************************************************************)
(* Specifications.                                                         *)
(***************************************************************************)
Init ==
    /\ renders = <<>>
    /\ User = {}
    /\ Post = {}
    /\ userSeq = 0
    /\ postSeq = 0
    /\ pc = "start"
    /\ drafts = EmptyBag
    /\ filteredDrafts = EmptyBag

\* The layout component, rendered any number of times.
Next == \E in \in Inputs : Render(in[1], in[2])

Spec == Init /\ [][Next]_vars

\* The guide's database: statements run by hand, then the script.
NextDb ==
    \/ \E email \in Emails, name \in Names : InsertUser(email, name)
    \/ \E title \in PostTitles, content \in Contents, published \in Booleans,
          authorId \in {SqlNull} \cup {Val(i) : i \in 1..MaxUsers} :
            InsertPost(title, content, published, authorId)
    \/ CreateSarah
    \/ CreateEmily
    \/ FindDrafts
    \/ FindFilteredDrafts

SpecDb == Init /\ [][NextDb]_vars

(***************************************************************************)
(* Properties of the layout component (checked under Spec).                *)
(***************************************************************************)
NoData == {Undefined, Null}
Falsy == {Undefined, Null, JSFalse, Num("0"), Num("NaN"), Str("")}
Rendered == {i \in DOMAIN renders : renders[i].data \notin NoData}
Parts(i) == renders[i].output.returned.children
PropsOfTopSection(i) == Parts(i)[2].children[1].props

\* C1: a render with truthy data returns exactly four parts, in this order:
\* SEO, a section "top-section" holding TopSection alone, MDXRenderer whose
\* only child is mdx.body, and PageBottom, whatever the front matter is.
C1_FourPartsInOrder ==
    \A i \in Rendered :
        /\ renders[i].output.returned.type = "Fragment"
        /\ Len(Parts(i)) = 4
        /\ Parts(i)[1].type = "SEO"
        /\ Parts(i)[2].type = "section"
        /\ Parts(i)[2].props.className = "top-section"
        /\ Len(Parts(i)[2].children) = 1
        /\ Parts(i)[2].children[1].type = "TopSection"
        /\ Parts(i)[3].type = "MDXRenderer"
        /\ Parts(i)[3].children = <<renders[i].data.mdx.body>>
        /\ Parts(i)[4].type = "PageBottom"

C1_Witness ==
    \E i \in Rendered :
        /\ renders[i].data.mdx.frontmatter.title = Null
        /\ renders[i].data.mdx.frontmatter.metaDescription = Str("")
        /\ Len(Parts(i)) = 4
        /\ Parts(i)[3].children[1] = Str("compiled MDX body")

\* C2: TopSection's toc is mdx.tableOfContents when frontmatter.toc is truthy
\* or null/undefined, and is [] exactly when frontmatter.toc is a falsy value
\* other than null and undefined.
C2_TocShownByDefault ==
    \A i \in Rendered :
        LET toc == renders[i].data.mdx.frontmatter.toc
        IN IF toc \in Falsy \ NoData
           THEN PropsOfTopSection(i).toc = EmptyArray
           ELSE /\ PropsOfTopSection(i).toc = renders[i].data.mdx.tableOfContents
                /\ PropsOfTopSection(i).toc # EmptyArray

C2_Witness ==
    /\ \E i \in Rendered :
        /\ renders[i].data.mdx.frontmatter.toc = JSFalse
        /\ PropsOfTopSection(i).toc = EmptyArray
    /\ \E i \in Rendered :
        /\ renders[i].data.mdx.frontmatter.toc = Null
        /\ PropsOfTopSection(i).toc = Obj("items:Overview,Prerequisites")

\* C3: SEO.title is metaTitle when that is truthy and title otherwise,
\* SEO.description is metaDescription when that is truthy and title otherwise;
\* so with a non-empty title neither is empty, null or undefined.
C3_SeoFallsBackToTitle ==
    \A i \in Rendered :
        LET fm == renders[i].data.mdx.frontmatter
            seo == Parts(i)[1].props
        IN /\ seo.title = IF fm.metaTitle \notin Falsy THEN fm.metaTitle ELSE fm.title
           /\ seo.description =
                 IF fm.metaDescription \notin Falsy THEN fm.metaDescription ELSE fm.title
           /\ (fm.title.t = "string" /\ fm.title.v # "")
                 => /\ seo.title \notin {Str(""), Null, Undefined}
                    /\ seo.description \notin {Str(""), Null, Undefined}

C3_Witness ==
    \E i \in Rendered :
        /\ renders[i].data.mdx.frontmatter.title = Str("SQL views")
        /\ renders[i].data.mdx.frontmatter.metaTitle = Str("")
        /\ renders[i].data.mdx.frontmatter.metaDescription = Null
        /\ Parts(i)[1].props.title = Str("SQL views")
        /\ Parts(i)[1].props.description = Str("SQL views")

\* C4: PageBottom's editDocsPath is docsLocation, one "/", then
\* parent.relativePath and nothing else; PageBottom's pageUrl is fields.slug
\* and TopSection's slug is fields.modSlug.
C4_EditPathAndSlugs ==
    \A i \in Rendered :
        LET d == renders[i].data
        IN /\ Parts(i)[4].props.editDocsPath =
                 Str(d.site.siteMetadata.docsLocation.v \o "/" \o d.mdx.parent.relativePath.v)
           /\ Parts(i)[4].props.pageUrl = d.mdx.fields.slug
           /\ PropsOfTopSection(i).slug = d.mdx.fields.modSlug

C4_Witness ==
    \E i \in Rendered :
        /\ renders[i].data.mdx.fields.slug # renders[i].data.mdx.fields.modSlug
        /\ Parts(i)[4].props.editDocsPath =
              Str("https://github.com/prisma/docs/tree/master/content/index.mdx")
        /\ Parts(i)[4].props.pageUrl = Str("/")
        /\ PropsOfTopSection(i).slug = Str("/index")

\* C5: a render with undefined or null data returns null, renders none of
\* the four parts and reads no field of data.
C5_NoDataRendersNull ==
    \A i \in DOMAIN renders :
        renders[i].data \in NoData
            => /\ renders[i].output.returned = Null
               /\ renders[i].output.reads = {}

C5_Witness ==
    /\ \E i \in DOMAIN renders : renders[i].data = Undefined /\ renders[i].output.returned = Null
    /\ \E i \in DOMAIN renders : renders[i].data = Null /\ renders[i].output.returned = Null

Authors(p) == {u \in User : ~p.authorId.null /\ u.id = p.authorId}
RowsOf(view, p) == {r \in DOMAIN view : r.id = p.id}

C8_SecondQueryReturnsEmilysDrafts ==
    pc = "done" =>
        /\ \A e \in {"sarah@prisma.io", "emily@prisma.io"} :
              \E u \in User :
                 /\ u.email = Val(e)
                 /\ Cardinality({p \in Post : p.authorId = u.id}) = 3
        /\ drafts = Draft
        /\ filteredDrafts =
              [r \in {x \in DOMAIN Draft : x.email = Val("emily@prisma.io")} |-> Draft[r]]

====
